---- MODULE Spec2Model ----
(***************************************************************************)
(* A model of the gedit mypy plugin (src/mypy/__init__.py and              *)
(* src/mypy/gutterrenderer.py): the per-view state machine of              *)
(* MyPyViewActivatable, the parser of the checker's output and the gutter  *)
(* renderer's draw callback.                                               *)
(*                                                                         *)
(* Text is modelled character by character: a Python str is a sequence of  *)
(* one-character strings, so that the regular expression of parse_mypy,    *)
(* str.strip, str.split, int() and Gio.File's canonical form are computed  *)
(* as the code computes them.  Python's None is the empty sequence where   *)
(* the value is a str or a Gio.File (no path and no rule is empty).        *)
(***************************************************************************)
EXTENDS Integers, Sequences, FiniteSets, TLC

None == <<>>

\* ------------------------------------------------------------------ text

LowerChars ==
    {"a","b","c","d","e","f","g","h","i","j","k","l","m",
     "n","o","p","q","r","s","t","u","v","w","x","y","z"}

UpperChars ==
    {"A","B","C","D","E","F","G","H","I","J","K","L","M",
     "N","O","P","Q","R","S","T","U","V","W","X","Y","Z"}

\* A character of Python's str is a one-character string when it is an ASCII
\* character, and the string "U+XXXX" of its code point otherwise.

\* the ASCII digits
AsciiDigits == {"0","1","2","3","4","5","6","7","8","9"}

\* the other decimal digits of Unicode (category Nd, as of the Unicode version
\* of Python 3.11), one row per script, each row in the order of the values
\* 0 to 9
UnicodeDigits ==
    <<
       <<"U+0660","U+0661","U+0662","U+0663","U+0664","U+0665","U+0666","U+0667","U+0668","U+0669">>,
       <<"U+06F0","U+06F1","U+06F2","U+06F3","U+06F4","U+06F5","U+06F6","U+06F7","U+06F8","U+06F9">>,
       <<"U+07C0","U+07C1","U+07C2","U+07C3","U+07C4","U+07C5","U+07C6","U+07C7","U+07C8","U+07C9">>,
       <<"U+0966","U+0967","U+0968","U+0969","U+096A","U+096B","U+096C","U+096D","U+096E","U+096F">>,
       <<"U+09E6","U+09E7","U+09E8","U+09E9","U+09EA","U+09EB","U+09EC","U+09ED","U+09EE","U+09EF">>,
       <<"U+0A66","U+0A67","U+0A68","U+0A69","U+0A6A","U+0A6B","U+0A6C","U+0A6D","U+0A6E","U+0A6F">>,
       <<"U+0AE6","U+0AE7","U+0AE8","U+0AE9","U+0AEA","U+0AEB","U+0AEC","U+0AED","U+0AEE","U+0AEF">>,
       <<"U+0B66","U+0B67","U+0B68","U+0B69","U+0B6A","U+0B6B","U+0B6C","U+0B6D","U+0B6E","U+0B6F">>,
       <<"U+0BE6","U+0BE7","U+0BE8","U+0BE9","U+0BEA","U+0BEB","U+0BEC","U+0BED","U+0BEE","U+0BEF">>,
       <<"U+0C66","U+0C67","U+0C68","U+0C69","U+0C6A","U+0C6B","U+0C6C","U+0C6D","U+0C6E","U+0C6F">>,
       <<"U+0CE6","U+0CE7","U+0CE8","U+0CE9","U+0CEA","U+0CEB","U+0CEC","U+0CED","U+0CEE","U+0CEF">>,
       <<"U+0D66","U+0D67","U+0D68","U+0D69","U+0D6A","U+0D6B","U+0D6C","U+0D6D","U+0D6E","U+0D6F">>,
       <<"U+0DE6","U+0DE7","U+0DE8","U+0DE9","U+0DEA","U+0DEB","U+0DEC","U+0DED","U+0DEE","U+0DEF">>,
       <<"U+0E50","U+0E51","U+0E52","U+0E53","U+0E54","U+0E55","U+0E56","U+0E57","U+0E58","U+0E59">>,
       <<"U+0ED0","U+0ED1","U+0ED2","U+0ED3","U+0ED4","U+0ED5","U+0ED6","U+0ED7","U+0ED8","U+0ED9">>,
       <<"U+0F20","U+0F21","U+0F22","U+0F23","U+0F24","U+0F25","U+0F26","U+0F27","U+0F28","U+0F29">>,
       <<"U+1040","U+1041","U+1042","U+1043","U+1044","U+1045","U+1046","U+1047","U+1048","U+1049">>,
       <<"U+1090","U+1091","U+1092","U+1093","U+1094","U+1095","U+1096","U+1097","U+1098","U+1099">>,
       <<"U+17E0","U+17E1","U+17E2","U+17E3","U+17E4","U+17E5","U+17E6","U+17E7","U+17E8","U+17E9">>,
       <<"U+1810","U+1811","U+1812","U+1813","U+1814","U+1815","U+1816","U+1817","U+1818","U+1819">>,
       <<"U+1946","U+1947","U+1948","U+1949","U+194A","U+194B","U+194C","U+194D","U+194E","U+194F">>,
       <<"U+19D0","U+19D1","U+19D2","U+19D3","U+19D4","U+19D5","U+19D6","U+19D7","U+19D8","U+19D9">>,
       <<"U+1A80","U+1A81","U+1A82","U+1A83","U+1A84","U+1A85","U+1A86","U+1A87","U+1A88","U+1A89">>,
       <<"U+1A90","U+1A91","U+1A92","U+1A93","U+1A94","U+1A95","U+1A96","U+1A97","U+1A98","U+1A99">>,
       <<"U+1B50","U+1B51","U+1B52","U+1B53","U+1B54","U+1B55","U+1B56","U+1B57","U+1B58","U+1B59">>,
       <<"U+1BB0","U+1BB1","U+1BB2","U+1BB3","U+1BB4","U+1BB5","U+1BB6","U+1BB7","U+1BB8","U+1BB9">>,
       <<"U+1C40","U+1C41","U+1C42","U+1C43","U+1C44","U+1C45","U+1C46","U+1C47","U+1C48","U+1C49">>,
       <<"U+1C50","U+1C51","U+1C52","U+1C53","U+1C54","U+1C55","U+1C56","U+1C57","U+1C58","U+1C59">>,
       <<"U+A620","U+A621","U+A622","U+A623","U+A624","U+A625","U+A626","U+A627","U+A628","U+A629">>,
       <<"U+A8D0","U+A8D1","U+A8D2","U+A8D3","U+A8D4","U+A8D5","U+A8D6","U+A8D7","U+A8D8","U+A8D9">>,
       <<"U+A900","U+A901","U+A902","U+A903","U+A904","U+A905","U+A906","U+A907","U+A908","U+A909">>,
       <<"U+A9D0","U+A9D1","U+A9D2","U+A9D3","U+A9D4","U+A9D5","U+A9D6","U+A9D7","U+A9D8","U+A9D9">>,
       <<"U+A9F0","U+A9F1","U+A9F2","U+A9F3","U+A9F4","U+A9F5","U+A9F6","U+A9F7","U+A9F8","U+A9F9">>,
       <<"U+AA50","U+AA51","U+AA52","U+AA53","U+AA54","U+AA55","U+AA56","U+AA57","U+AA58","U+AA59">>,
       <<"U+ABF0","U+ABF1","U+ABF2","U+ABF3","U+ABF4","U+ABF5","U+ABF6","U+ABF7","U+ABF8","U+ABF9">>,
       <<"U+FF10","U+FF11","U+FF12","U+FF13","U+FF14","U+FF15","U+FF16","U+FF17","U+FF18","U+FF19">>,
       <<"U+104A0","U+104A1","U+104A2","U+104A3","U+104A4","U+104A5","U+104A6","U+104A7","U+104A8","U+104A9">>,
       <<"U+10D30","U+10D31","U+10D32","U+10D33","U+10D34","U+10D35","U+10D36","U+10D37","U+10D38","U+10D39">>,
       <<"U+11066","U+11067","U+11068","U+11069","U+1106A","U+1106B","U+1106C","U+1106D","U+1106E","U+1106F">>,
       <<"U+110F0","U+110F1","U+110F2","U+110F3","U+110F4","U+110F5","U+110F6","U+110F7","U+110F8","U+110F9">>,
       <<"U+11136","U+11137","U+11138","U+11139","U+1113A","U+1113B","U+1113C","U+1113D","U+1113E","U+1113F">>,
       <<"U+111D0","U+111D1","U+111D2","U+111D3","U+111D4","U+111D5","U+111D6","U+111D7","U+111D8","U+111D9">>,
       <<"U+112F0","U+112F1","U+112F2","U+112F3","U+112F4","U+112F5","U+112F6","U+112F7","U+112F8","U+112F9">>,
       <<"U+11450","U+11451","U+11452","U+11453","U+11454","U+11455","U+11456","U+11457","U+11458","U+11459">>,
       <<"U+114D0","U+114D1","U+114D2","U+114D3","U+114D4","U+114D5","U+114D6","U+114D7","U+114D8","U+114D9">>,
       <<"U+11650","U+11651","U+11652","U+11653","U+11654","U+11655","U+11656","U+11657","U+11658","U+11659">>,
       <<"U+116C0","U+116C1","U+116C2","U+116C3","U+116C4","U+116C5","U+116C6","U+116C7","U+116C8","U+116C9">>,
       <<"U+11730","U+11731","U+11732","U+11733","U+11734","U+11735","U+11736","U+11737","U+11738","U+11739">>,
       <<"U+118E0","U+118E1","U+118E2","U+118E3","U+118E4","U+118E5","U+118E6","U+118E7","U+118E8","U+118E9">>,
       <<"U+11950","U+11951","U+11952","U+11953","U+11954","U+11955","U+11956","U+11957","U+11958","U+11959">>,
       <<"U+11C50","U+11C51","U+11C52","U+11C53","U+11C54","U+11C55","U+11C56","U+11C57","U+11C58","U+11C59">>,
       <<"U+11D50","U+11D51","U+11D52","U+11D53","U+11D54","U+11D55","U+11D56","U+11D57","U+11D58","U+11D59">>,
       <<"U+11DA0","U+11DA1","U+11DA2","U+11DA3","U+11DA4","U+11DA5","U+11DA6","U+11DA7","U+11DA8","U+11DA9">>,
       <<"U+16A60","U+16A61","U+16A62","U+16A63","U+16A64","U+16A65","U+16A66","U+16A67","U+16A68","U+16A69">>,
       <<"U+16AC0","U+16AC1","U+16AC2","U+16AC3","U+16AC4","U+16AC5","U+16AC6","U+16AC7","U+16AC8","U+16AC9">>,
       <<"U+16B50","U+16B51","U+16B52","U+16B53","U+16B54","U+16B55","U+16B56","U+16B57","U+16B58","U+16B59">>,
       <<"U+1D7CE","U+1D7CF","U+1D7D0","U+1D7D1","U+1D7D2","U+1D7D3","U+1D7D4","U+1D7D5","U+1D7D6","U+1D7D7">>,
       <<"U+1D7D8","U+1D7D9","U+1D7DA","U+1D7DB","U+1D7DC","U+1D7DD","U+1D7DE","U+1D7DF","U+1D7E0","U+1D7E1">>,
       <<"U+1D7E2","U+1D7E3","U+1D7E4","U+1D7E5","U+1D7E6","U+1D7E7","U+1D7E8","U+1D7E9","U+1D7EA","U+1D7EB">>,
       <<"U+1D7EC","U+1D7ED","U+1D7EE","U+1D7EF","U+1D7F0","U+1D7F1","U+1D7F2","U+1D7F3","U+1D7F4","U+1D7F5">>,
       <<"U+1D7F6","U+1D7F7","U+1D7F8","U+1D7F9","U+1D7FA","U+1D7FB","U+1D7FC","U+1D7FD","U+1D7FE","U+1D7FF">>,
       <<"U+1E140","U+1E141","U+1E142","U+1E143","U+1E144","U+1E145","U+1E146","U+1E147","U+1E148","U+1E149">>,
       <<"U+1E2F0","U+1E2F1","U+1E2F2","U+1E2F3","U+1E2F4","U+1E2F5","U+1E2F6","U+1E2F7","U+1E2F8","U+1E2F9">>,
       <<"U+1E950","U+1E951","U+1E952","U+1E953","U+1E954","U+1E955","U+1E956","U+1E957","U+1E958","U+1E959">>,
       <<"U+1FBF0","U+1FBF1","U+1FBF2","U+1FBF3","U+1FBF4","U+1FBF5","U+1FBF6","U+1FBF7","U+1FBF8","U+1FBF9">> >>

\* \d of the regular expression: a str pattern matches every decimal digit of
\* Unicode
Digits ==
    AsciiDigits \cup
    {UnicodeDigits[r][v] : r \in 1..Len(UnicodeDigits), v \in 1..10}

\* \s of the regular expression: the white space of ASCII (space, \t, \n, \r,
\* \x0b, \x0c, \x1c to \x1f) and that of Unicode
Spaces ==
    {" ", "\t", "\n", "\r", "\f", "", "", "", "", ""} \cup
    {"U+0085", "U+00A0", "U+1680", "U+2000", "U+2001", "U+2002",
     "U+2003", "U+2004", "U+2005", "U+2006", "U+2007", "U+2008",
     "U+2009", "U+200A", "U+2028", "U+2029", "U+202F", "U+205F", "U+3000"}

\* [a-z] under re.I: both letter cases match, and the four characters whose
\* case folding is an ASCII letter (capital I with dot, dotless i, long s and
\* the Kelvin sign)
Alphas ==
    LowerChars \cup UpperChars \cup {"U+0130", "U+0131", "U+017F", "U+212A"}

\* the value of a decimal digit
DigitVal(c) ==
    CASE c = "0" -> 0 [] c = "1" -> 1 [] c = "2" -> 2 [] c = "3" -> 3
      [] c = "4" -> 4 [] c = "5" -> 5 [] c = "6" -> 6 [] c = "7" -> 7
      [] c = "8" -> 8 [] c = "9" -> 9
      [] OTHER -> CHOOSE v \in 0..9 :
                      \E r \in 1..Len(UnicodeDigits) : UnicodeDigits[r][v + 1] = c

\* s[a..b], empty when b < a
Slice(s, a, b) == IF b < a THEN <<>> ELSE SubSeq(s, a, b)

\* the first index of lo..hi whose character is not in class C (hi + 1 if
\* none), found by halving the range
RECURSIVE FirstOutside(_, _, _, _)
FirstOutside(s, lo, hi, C) ==
    IF lo > hi THEN lo
    ELSE IF lo = hi THEN (IF s[lo] \in C THEN lo + 1 ELSE lo)
    ELSE LET mid == (lo + hi) \div 2
             l   == FirstOutside(s, lo, mid, C)
         IN  IF l <= mid THEN l ELSE FirstOutside(s, mid + 1, hi, C)

\* the first index >= i of s whose character is not in class C (Len(s)+1 if none):
\* where a greedy C+ or C* that starts at i ends
SkipClass(s, i, C) == FirstOutside(s, i, Len(s), C)

\* sys.int_info.default_max_str_digits: the longest string int() converts
int_max_str_digits == 4300

\* the digits of value 0
Zeros == {c \in Digits : DigitVal(c) = 0}

\* the number a string of decimal digits denotes
RECURSIVE int_value(_)
int_value(s) ==
    IF s = <<>> THEN 0
    ELSE 10 * int_value(Slice(s, 1, Len(s) - 1)) + DigitVal(s[Len(s)])

\* int(str) of a string of decimal digits: ValueError when the string is longer
\* than int_max_str_digits (leading zeros count), else the number as value,
\* computed from the digits after the leading zeros.  Python's integers are
\* unbounded; the model evaluates the numbers that fit the toolkit's int.
int(s) ==
    IF Len(s) > int_max_str_digits THEN [exc |-> "ValueError"]
    ELSE [exc |-> "",
          value |-> int_value(Slice(s, SkipClass(s, 1, Zeros), Len(s)))]

\* str.strip("\n")
RECURSIVE StripLeft(_)
StripLeft(s) ==
    IF s # <<>> /\ s[1] = "\n" THEN StripLeft(Tail(s)) ELSE s

RECURSIVE StripRight(_)
StripRight(s) ==
    IF s # <<>> /\ s[Len(s)] = "\n"
    THEN StripRight(Slice(s, 1, Len(s) - 1)) ELSE s

strip(s) == StripRight(StripLeft(s))

\* the positions of the separator sep in s
SepsOf(s, sep) == {i \in 1..Len(s) : s[i] = sep}

\* the position of the k-th separator of s; 0 for k = 0, Len(s) + 1 past the last
SepAt(s, sep, k) ==
    IF k = 0 THEN 0
    ELSE IF k > Cardinality(SepsOf(s, sep)) THEN Len(s) + 1
    ELSE CHOOSE i \in SepsOf(s, sep) :
             Cardinality({j \in SepsOf(s, sep) : j < i}) = k - 1

\* str.split(sep): the pieces between the separators, empty pieces kept
split(s, sep) ==
    [k \in 1..(Cardinality(SepsOf(s, sep)) + 1) |->
        Slice(s, SepAt(s, sep, k - 1) + 1, SepAt(s, sep, k) - 1)]

\* ------------------------------------------------------------- Gio.File

\* the components of a path: split on "/", empty pieces dropped
Components(p) == SelectSeq(split(p, "/"), LAMBDA c : c # <<>>)

\* g_canonicalize_filename: "." dropped, ".." removes the component before it
RECURSIVE Resolve(_, _)
Resolve(cs, acc) ==
    IF cs = <<>> THEN acc
    ELSE IF cs[1] = <<".">> THEN Resolve(Tail(cs), acc)
    ELSE IF cs[1] = <<".", ".">>
         THEN Resolve(Tail(cs), Slice(acc, 1, Len(acc) - 1))
    ELSE Resolve(Tail(cs), Append(acc, cs[1]))

RECURSIVE JoinPath(_)
JoinPath(cs) ==
    IF cs = <<>> THEN <<>> ELSE <<"/">> \o cs[1] \o JoinPath(Tail(cs))

\* the working directory of the editor process, against which Gio resolves a
\* relative path
Cwd == <<"/","h">>

\* the root a canonical path starts with: exactly two leading separators are
\* kept as they are, any other number of them is one separator
RootOf(p) ==
    IF SkipClass(p, 1, {"/"}) = 3 THEN <<"/", "/">> ELSE <<"/">>

\* Gio.File.new_for_path(path): a local file is its canonical absolute path
new_for_path(p) ==
    LET abs == IF p # <<>> /\ p[1] = "/" THEN p ELSE Cwd \o <<"/">> \o p
        cs  == Resolve(Components(abs), <<>>)
    IN  IF cs = <<>> THEN RootOf(abs)
        ELSE Slice(RootOf(abs), 2, Len(RootOf(abs))) \o JoinPath(cs)

\* Gio.File.equal of two local files: the canonical paths are the same
equal(f, g) == f = g

\* Gio.File.has_parent(None): every file but the root has a parent
has_parent(f) == Components(f) # <<>>

\* Gio.File.get_parent: the directory name of the path, "/" for a file in a root
get_parent(f) ==
    LET cs == Components(f)
    IN  IF Len(cs) <= 1 THEN <<"/">>
        ELSE Slice(RootOf(f), 2, Len(RootOf(f)))
                 \o JoinPath(Slice(cs, 1, Len(cs) - 1))

\* ---------------------------------------------------------------- Level

\* the members of the enumeration, in declaration order
Level == <<"NOTE", "WARN", "ERROR", "UNKNOWN">>

code(level) ==
    CASE level = "NOTE"    -> <<"n","o","t","e">>
      [] level = "WARN"    -> <<"w","a","r","n","i","n","g">>
      [] level = "ERROR"   -> <<"e","r","r","o","r">>
      [] level = "UNKNOWN" -> <<"?">>

color(level) ==
    CASE level = "NOTE"    -> "#007FFF"
      [] level = "WARN"    -> "#f5c200"
      [] level = "ERROR"   -> "#c01c28"
      [] level = "UNKNOWN" -> "#c64600"

\* list.index
index(level) == CHOOSE i \in 1..Len(Level) : Level[i] = level

\* Level.__lt__: by position in the declaration order
lt(a, b) == index(a) < index(b)

\* Level.by_code: the first member whose code is the given word, else UNKNOWN
RECURSIVE by_code_from(_, _)
by_code_from(word, i) ==
    IF i > Len(Level) THEN "UNKNOWN"
    ELSE IF code(Level[i]) = word THEN Level[i]
    ELSE by_code_from(word, i + 1)

by_code(word) == by_code_from(word, 1)

\* ------------------------------------------------- the line grammar (re)

NoMatch == [ok |-> FALSE]

\* \d+: from index i: the index of the colon that ends the number, 0 when the
\* text at i is not a number followed by a colon
NumberColon(s, i) ==
    LET e == SkipClass(s, i, Digits)
    IN  IF e > i /\ e <= Len(s) /\ s[e] = ":" THEN e ELSE 0

\* (?:\s+\[(?P<rule>[a-z]+)\])?$ tried at index j with the group taken: the rule
\* when s[j..] is white space, "[", letters, "]" and the end of the line
RuleAt(s, j) ==
    LET w == SkipClass(s, j, Spaces)
        a == SkipClass(s, w + 1, Alphas)
    IN  IF /\ w > j /\ w <= Len(s) /\ s[w] = "["
           /\ a > w + 1 /\ a = Len(s) /\ s[a] = "]"
        THEN Slice(s, w + 1, a - 1)
        ELSE None

\* (?P<message>.*?): the lazy group takes the shortest text from index m after
\* which the optional rule group and $ match; the end of the line always does
RECURSIVE MessageEnd(_, _)
MessageEnd(s, j) ==
    IF j > Len(s) \/ RuleAt(s, j) # None THEN j ELSE MessageEnd(s, j + 1)

\* the groups of a match: path ends before index i, the four numbers end at
\* the colons c1..c4, the level word is s[w1..a1-1], the message s[m..e-1]
Groups(s, i, c1, c2, c3, c4, w1, a1, m, e) ==
    [ok         |-> TRUE,
     line       |-> Slice(s, i, c1 - 1),
     column     |-> Slice(s, c1 + 1, c2 - 1),
     end_line   |-> Slice(s, c2 + 1, c3 - 1),
     end_column |-> Slice(s, c3 + 1, c4 - 1),
     level      |-> Slice(s, w1, a1 - 1),
     message    |-> Slice(s, m, e - 1),
     rule       |-> IF e > Len(s) THEN None ELSE RuleAt(s, e)]

\* \s+(?P<message>.*?)(?:\s+\[(?P<rule>[a-z]+)\])?$ after the colon at a1, the
\* white space ending before index m
MatchMessage(s, i, c1, c2, c3, c4, w1, a1, m) ==
    IF m > a1 + 1
    THEN Groups(s, i, c1, c2, c3, c4, w1, a1, m, MessageEnd(s, m))
    ELSE NoMatch

\* (?P<level>[a-z]+): from index w1, the letters ending before index a1
MatchLevel(s, i, c1, c2, c3, c4, w1, a1) ==
    IF a1 > w1 /\ a1 <= Len(s) /\ s[a1] = ":"
    THEN MatchMessage(s, i, c1, c2, c3, c4, w1, a1,
                      SkipClass(s, a1 + 1, Spaces))
    ELSE NoMatch

\* \s+ after the colon at c4, the white space ending before index w1
MatchSpace(s, i, c1, c2, c3, c4, w1) ==
    IF w1 > c4 + 1
    THEN MatchLevel(s, i, c1, c2, c3, c4, w1, SkipClass(s, w1, Alphas))
    ELSE NoMatch

\* (?P<end_column>\d+): ending at the colon c4
MatchNumber4(s, i, c1, c2, c3, c4) ==
    IF c4 = 0 THEN NoMatch
    ELSE MatchSpace(s, i, c1, c2, c3, c4, SkipClass(s, c4 + 1, Spaces))

\* (?P<end_line>\d+): ending at the colon c3
MatchNumber3(s, i, c1, c2, c3) ==
    IF c3 = 0 THEN NoMatch
    ELSE MatchNumber4(s, i, c1, c2, c3, NumberColon(s, c3 + 1))

\* (?P<column>\d+): ending at the colon c2
MatchNumber2(s, i, c1, c2) ==
    IF c2 = 0 THEN NoMatch
    ELSE MatchNumber3(s, i, c1, c2, NumberColon(s, c2 + 1))

\* (?P<line>\d+): ending at the colon c1
MatchNumber1(s, i, c1) ==
    IF c1 = 0 THEN NoMatch
    ELSE MatchNumber2(s, i, c1, NumberColon(s, c1 + 1))

\* what follows "<path>:" in the expression, matched from index i
MatchRest(s, i) == MatchNumber1(s, i, NumberColon(s, i))

\* the indices up to i of the colons after which the rest of the expression
\* matches
PathEnds(s, i) == {j \in 2..i : s[j] = ":" /\ MatchRest(s, j + 1).ok}

\* the greatest index of a set of indices
LastOf(S) == CHOOSE j \in S : \A k \in S : k <= j

\* the groups of the match whose path ends before the colon at index e
MatchPathAt(s, e) ==
    [MatchRest(s, e + 1) EXCEPT !.ok = TRUE] @@ [path |-> Slice(s, 1, e - 1)]

\* the match for the last of the colons ends the path group can end before
MatchPathLast(s, ends) ==
    IF ends = {} THEN NoMatch ELSE MatchPathAt(s, LastOf(ends))

\* ^(?P<path>.+): the greedy group takes the longest prefix that ends before a
\* colon at an index up to i and after which the rest of the expression matches
MatchPath(s, i) == MatchPathLast(s, PathEnds(s, i))

\* re.match(<the line grammar>, line, flags=re.I | re.VERBOSE): the groupdict
\* of the match with ok = TRUE, or NoMatch
match(line) == MatchPath(line, Len(line))

\* -------------------------------------------------------------- Message

\* C16 mutant: the end anchor is placed at the column as the checker gave it
Message_end_as_given(buffer, m) ==
    IF \E n \in {m.line, m.column, m.end_line, m.end_column} : int(n).exc # ""
    THEN [exc |-> "ValueError"]
    ELSE
    [path       |-> m.path,
     line       |-> int(m.line).value,
     column     |-> int(m.column).value,
     end_line   |-> int(m.end_line).value,
     end_column |-> int(m.end_column).value,
     level_text |-> m.level,
     level      |-> by_code(m.level),
     message    |-> m.message,
     rule       |-> m.rule,
     mark_start |-> [buffer |-> buffer, line |-> int(m.line).value - 1,
                     offset |-> int(m.column).value - 1, deleted |-> FALSE],
     mark_end   |-> [buffer |-> buffer, line |-> int(m.end_line).value - 1,
                     offset |-> int(m.end_column).value, deleted |-> FALSE]]

\* Message.__init__(view, match): the fields of the match, the level looked up
\* by the level word as written, and the two marks created in the view's
\* current buffer at (line - 1, column - 1) and (end_line - 1, end_column - 1).
\* When int() raises for one of the four numbers the constructor ends with the
\* exception, and the result is [exc |-> "ValueError"] instead of a message.
Message(buffer, m) ==
    IF \E n \in {m.line, m.column, m.end_line, m.end_column} : int(n).exc # ""
    THEN [exc |-> "ValueError"]
    ELSE
    [path       |-> m.path,
     line       |-> int(m.line).value,
     column     |-> int(m.column).value,
     end_line   |-> int(m.end_line).value,
     end_column |-> int(m.end_column).value,
     level_text |-> m.level,
     level      |-> by_code(m.level),
     message    |-> m.message,
     rule       |-> m.rule,
     mark_start |-> [buffer |-> buffer, line |-> int(m.line).value - 1,
                     offset |-> int(m.column).value - 1, deleted |-> FALSE],
     mark_end   |-> [buffer |-> buffer, line |-> int(m.end_line).value - 1,
                     offset |-> int(m.end_column).value - 1, deleted |-> FALSE]]

\* whether the call of a constructor has raised instead of giving an object
raised(obj) == "exc" \in DOMAIN obj

\* Message.get_file
get_file(msg) == new_for_path(msg.path)

\* str(n) of a natural number
RECURSIVE str(_)
str(n) ==
    IF n < 10 THEN <<CHOOSE c \in AsciiDigits : DigitVal(c) = n>>
    ELSE Append(str(n \div 10), CHOOSE c \in AsciiDigits : DigitVal(c) = n % 10)

\* the characters g_markup_escape_text writes as a character reference, each
\* with its code point: U+0001 to U+0008, U+000B, U+000C, U+000E to U+001F,
\* U+007F to U+0084 and U+0086 to U+009F (not \t, \n, \r and U+0085)
ControlChars ==
    <<
       <<"", 1>>, <<"", 2>>, <<"", 3>>, <<"", 4>>,
       <<"", 5>>, <<"", 6>>, <<"", 7>>, <<"", 8>>,
       <<"", 11>>, <<"\f", 12>>, <<"", 14>>, <<"", 15>>,
       <<"", 16>>, <<"", 17>>, <<"", 18>>, <<"", 19>>,
       <<"", 20>>, <<"", 21>>, <<"", 22>>, <<"", 23>>,
       <<"", 24>>, <<"", 25>>, <<"", 26>>, <<"", 27>>,
       <<"", 28>>, <<"", 29>>, <<"", 30>>, <<"", 31>>,
       <<"", 127>>, <<"U+0080", 128>>, <<"U+0081", 129>>, <<"U+0082", 130>>,
       <<"U+0083", 131>>, <<"U+0084", 132>>, <<"U+0086", 134>>, <<"U+0087", 135>>,
       <<"U+0088", 136>>, <<"U+0089", 137>>, <<"U+008A", 138>>, <<"U+008B", 139>>,
       <<"U+008C", 140>>, <<"U+008D", 141>>, <<"U+008E", 142>>, <<"U+008F", 143>>,
       <<"U+0090", 144>>, <<"U+0091", 145>>, <<"U+0092", 146>>, <<"U+0093", 147>>,
       <<"U+0094", 148>>, <<"U+0095", 149>>, <<"U+0096", 150>>, <<"U+0097", 151>>,
       <<"U+0098", 152>>, <<"U+0099", 153>>, <<"U+009A", 154>>, <<"U+009B", 155>>,
       <<"U+009C", 156>>, <<"U+009D", 157>>, <<"U+009E", 158>>, <<"U+009F", 159>>
    >>

IsControl(c) == \E k \in 1..Len(ControlChars) : ControlChars[k][1] = c

ord(c) == ControlChars[CHOOSE k \in 1..Len(ControlChars) : ControlChars[k][1] = c][2]

HexDigits == <<"0","1","2","3","4","5","6","7","8","9","a","b","c","d","e","f">>

\* the conversion %x: the hexadecimal digits of n, in lower case, without
\* leading zeros
RECURSIVE hex(_)
hex(n) ==
    IF n < 16 THEN <<HexDigits[n + 1]>>
    ELSE Append(hex(n \div 16), HexDigits[(n % 16) + 1])

\* what g_markup_escape_text appends for the character c
escape_char(c) ==
    CASE c = "&"  -> <<"&","a","m","p",";">>
      [] c = "<"  -> <<"&","l","t",";">>
      [] c = ">"  -> <<"&","g","t",";">>
      [] c = "'"  -> <<"&","a","p","o","s",";">>
      [] c = "\"" -> <<"&","q","u","o","t",";">>
      [] OTHER -> IF IsControl(c) THEN <<"&","#","x">> \o hex(ord(c)) \o <<";">>
                  ELSE <<c>>

\* GLib.markup_escape_text: the five characters of markup become entities, a
\* control character other than \t, \n and \r becomes a character reference
\* &#x..; and every other character is copied
RECURSIVE markup_escape_text(_)
markup_escape_text(text) ==
    IF text = <<>> THEN <<>>
    ELSE escape_char(text[1]) \o markup_escape_text(Tail(text))

\* Message.get_pango_markup: the pieces the f-strings join, the literal parts
\* as strings and the formatted values as texts
get_pango_markup(msg) ==
    << str(msg.line), "<span foreground=\"#008899\">:</span>",
       str(msg.column), "<span foreground=\"#008899\">:</span> ",
       "<span foreground=\"", color(msg.level), "\"><b>", msg.level_text,
       ":</b></span> ", markup_escape_text(msg.message) >>
    \o (IF msg.rule # None
        THEN << " <span foreground=\"#916a42\">[", msg.rule, "]</span>" >>
        ELSE <<>>)

\* ----------------------------------------------------------- parse_mypy

\* the first statements of parse_mypy: no data gives no lines, else the data
\* without its leading and trailing newlines, split on newlines
lines_of(data) ==
    IF data = <<>> THEN <<>> ELSE split(strip(data), "\n")

\* the loop of parse_mypy over lines[i..], with context_data the local list
\* built so far.  A line that does not match is reported and skipped; a message
\* is built for a line that matches, and kept when the view's location equals
\* its file.  Message raises ValueError for a number int() refuses, and
\* self.location.equal raises AttributeError when the location is None; the
\* loop then ends with the exception (exc) and the list is dropped.
RECURSIVE parse_loop_unfiltered(_, _, _, _, _)

\* C3 mutant: the loop keeps the records of every file
parse_message_unfiltered(lines, i, location, buffer, context_data, msg) ==
    IF raised(msg) THEN [exc |-> msg.exc, context_data |-> context_data]
    ELSE IF location = None
    THEN [exc |-> "AttributeError", context_data |-> context_data]
    ELSE parse_loop_unfiltered(lines, i + 1, location, buffer,
                               Append(context_data, msg))

parse_match_unfiltered(lines, i, location, buffer, context_data, m) ==
    IF ~m.ok
    THEN parse_loop_unfiltered(lines, i + 1, location, buffer, context_data)
    ELSE parse_message_unfiltered(lines, i, location, buffer, context_data,
                                  Message(buffer, m))

parse_loop_unfiltered(lines, i, location, buffer, context_data) ==
    IF i > Len(lines) THEN [exc |-> "", context_data |-> context_data]
    ELSE parse_match_unfiltered(lines, i, location, buffer, context_data,
                                match(lines[i]))

RECURSIVE parse_loop(_, _, _, _, _)

\* the rest of an iteration once the message msg of line i is built (or the
\* constructor has raised): the location test and the append
parse_message(lines, i, location, buffer, context_data, msg) ==
    IF raised(msg) THEN [exc |-> msg.exc, context_data |-> context_data]
    ELSE IF location = None
    THEN [exc |-> "AttributeError", context_data |-> context_data]
    ELSE IF ~equal(location, get_file(msg))
    THEN parse_loop(lines, i + 1, location, buffer, context_data)
    ELSE parse_loop(lines, i + 1, location, buffer, Append(context_data, msg))

\* an iteration with m the result of re.match on line i
parse_match(lines, i, location, buffer, context_data, m) ==
    IF ~m.ok THEN parse_loop(lines, i + 1, location, buffer, context_data)
    ELSE parse_message(lines, i, location, buffer, context_data,
                       Message(buffer, m))

parse_loop(lines, i, location, buffer, context_data) ==
    IF i > Len(lines) THEN [exc |-> "", context_data |-> context_data]
    ELSE parse_match(lines, i, location, buffer, context_data, match(lines[i]))

\* C9 mutant: the records found are appended to the list in place
parse_mypy_merge(s, data) ==
    LET r == parse_loop(lines_of(data), 1, s.location, s.buffer, <<>>)
    IN  IF r.exc # "" THEN [s EXCEPT !.exc = r.exc]
        ELSE [s EXCEPT !.context_data = @ \o r.context_data]

\* parse_mypy(data) on the view state s: the new list replaces self.context_data
\* in one assignment after the loop; an exception leaves it as it was
parse_mypy(s, data) ==
    LET r == parse_loop(lines_of(data), 1, s.location, s.buffer, <<>>)
    IN  IF r.exc # "" THEN [s EXCEPT !.exc = r.exc]
        ELSE [s EXCEPT !.context_data = r.context_data]

\* ------------------------------------------------------ the view's state

\* The handlers below are functions of a record s of the plugin object's
\* attributes and of what it has registered with the host:
\*   context_data, parse_signal, connected, location, buffer (0 is None),
\*   buffer_signals, view_signals, project_folder   self.*
\*   gutter      whether gutter_renderer is in the view's gutter
\*   handlers    the signal handlers connected, in connection order; a handler
\*               (and its id) is [obj, sig, cb], obj a buffer or 0 for the view
\*   sources     the GLib io watches: [id, phase, out] with the phase of the
\*               checker process ("running", "closed": stdout closed and not
\*               yet exited, "exited") and its whole output once it has exited
\*   latest      the source id of the check started last
\*   exc         the exception the running call has raised ("" for none)
\*   errors      the exceptions callbacks of the current event ended with
\*   warned      whether the current event issued a warning
\*   cancelled   whether the current event removed the poll of a check in flight
\*   started     whether the current event started a checker process
\*   misses      whether the current event disconnected an id that is not a
\*               connected handler of the object
\*   stuck       no source id is left for the model to hand out

\* an attribute that was never assigned (reading it raises AttributeError)
Unset == <<"<unset>">>

\* the length cap of the model's source ids
MaxSources == 3

SourceIds == 1..MaxSources

PROJECT_FILES ==
    << <<".","m","y","p","y",".","i","n","i">>,
       <<"p","y","p","r","o","j","e","c","t",".","t","o","m","l">>,
       <<"s","e","t","u","p",".","c","f","g">> >>

\* the most handlers the model lets the plugin have connected at a time
MaxHandlers == 7

\* obj.connect(sig, cb): the handler is added after those connected before
connect(s, obj, sig, cb) ==
    IF Len(s.handlers) >= MaxHandlers THEN [s EXCEPT !.stuck = TRUE]
    ELSE [s EXCEPT !.handlers = Append(@, [obj |-> obj, sig |-> sig, cb |-> cb])]

\* a sequence without the first occurrence of x
RECURSIVE RemoveOne(_, _)
RemoveOne(seq, x) ==
    IF seq = <<>> THEN <<>>
    ELSE IF seq[1] = x THEN Tail(seq)
    ELSE <<seq[1]>> \o RemoveOne(Tail(seq), x)

\* obj.disconnect(sid): GObject only warns about an id that is not a handler
\* of obj
disconnect_handler(s, obj, sid) ==
    IF sid.obj = obj /\ \E k \in 1..Len(s.handlers) : s.handlers[k] = sid
    THEN [s EXCEPT !.handlers = RemoveOne(@, sid)]
    ELSE [s EXCEPT !.misses = TRUE]

\* C14 mutant: only the first id of the list is disconnected
disconnect_first(s, obj, signals) ==
    IF signals = <<>> THEN s ELSE disconnect_handler(s, obj, signals[1])

\* disconnect(obj, signals): the loop over the ids (the caller's list is
\* emptied in place by signals[:] = [])
RECURSIVE disconnect(_, _, _)
disconnect(s, obj, signals) ==
    IF signals = <<>> THEN s
    ELSE disconnect(disconnect_handler(s, obj, signals[1]), obj, Tail(signals))

disconnect_buffer(s) ==
    [disconnect(s, s.buffer, s.buffer_signals) EXCEPT !.buffer_signals = <<>>]

disconnect_view(s) ==
    [disconnect(s, 0, s.view_signals) EXCEPT !.view_signals = <<>>]

\* C1 mutant: update and on_notify_buffer leave the poll of the check in flight
cancel_check_kept(s) == s

\* if self.parse_signal != 0: GLib.source_remove(self.parse_signal);
\* self.parse_signal = 0.  Removing an id that is no source only logs.
cancel_check(s) ==
    IF s.parse_signal # 0
    THEN [s EXCEPT !.sources = {w \in @ : w.id # s.parse_signal},
                   !.parse_signal = 0,
                   !.cancelled = @ \/ \E w \in s.sources : w.id = s.parse_signal]
    ELSE s

\* on_notify_buffer(view): the poll of the check in flight is removed, the old
\* buffer's handlers are disconnected and the three base handlers are
\* connected to the view's buffer
on_notify_buffer(s, view_buffer) ==
    LET s1 == cancel_check(s)
        s2 == IF s1.buffer # 0 THEN disconnect_buffer(s1) ELSE s1
        s3 == [s2 EXCEPT !.buffer = view_buffer]
        s4 == connect(s3, view_buffer, "saved", "update_location")
        s5 == connect(s4, view_buffer, "loaded", "update_location")
        s6 == connect(s5, view_buffer, "notify::language", "update_location")
    IN  [s6 EXCEPT !.buffer_signals =
            << [obj |-> view_buffer, sig |-> "saved", cb |-> "update_location"],
               [obj |-> view_buffer, sig |-> "loaded", cb |-> "update_location"],
               [obj |-> view_buffer, sig |-> "notify::language",
                cb |-> "update_location"] >>]

\* do_activate: the renderer and the gutter are fetched, notify::buffer is
\* connected, buffer is None and on_notify_buffer runs for the view's buffer
do_activate(s, view_buffer) ==
    LET s1 == connect(s, 0, "notify::buffer", "on_notify_buffer")
        s2 == [s1 EXCEPT !.view_signals =
                  << [obj |-> 0, sig |-> "notify::buffer",
                      cb |-> "on_notify_buffer"] >>,
                         !.buffer = 0]
    IN  on_notify_buffer(s2, view_buffer)

\* do_deactivate
do_deactivate(s) ==
    LET s1 == cancel_check(s)
        s2 == [disconnect_buffer(s1) EXCEPT !.buffer = 0]
        s3 == disconnect_view(s2)
    IN  [s3 EXCEPT !.gutter = FALSE]

\* str.startswith
startswith(text, prefix) ==
    Len(text) >= Len(prefix) /\ Slice(text, 1, Len(prefix)) = prefix

\* should_check: [exc, val].  language is the id of buffer.get_language(), or
\* None for a buffer without a language, on which get_id() raises
should_check(s, language) ==
    IF s.location = None THEN [exc |-> "", val |-> FALSE]
    ELSE IF language = None THEN [exc |-> "AttributeError", val |-> FALSE]
    ELSE [exc |-> "",
          val |-> startswith(language, <<"p","y","t","h","o","n">>)]

\* folder.get_child(filename)
get_child(folder, filename) ==
    IF Components(folder) = <<>> THEN folder \o filename
    ELSE folder \o <<"/">> \o filename

\* for filename in PROJECT_FILES: if folder.get_child(filename).query_exists()
has_project_file(folder, fs) ==
    \E k \in 1..Len(PROJECT_FILES) : get_child(folder, PROJECT_FILES[k]) \in fs

\* C15 mutant: only the directory of the file is looked at
find_upwards_shallow(folder, location, fs) ==
    IF has_project_file(get_parent(folder), fs) THEN get_parent(folder)
    ELSE get_parent(location)

\* the while loop of find_project_folder from folder upwards
RECURSIVE find_upwards(_, _, _)
find_upwards(folder, location, fs) ==
    IF ~has_parent(folder) THEN get_parent(location)
    ELSE LET parent == get_parent(folder)
         IN  IF has_project_file(parent, fs) THEN parent
             ELSE find_upwards(parent, location, fs)

\* find_project_folder: [exc, folder], fs the files that exist
find_project_folder(location, fs) ==
    IF ~has_parent(location)
    THEN [exc |-> "FileNotFoundError", folder |-> Unset]
    ELSE [exc |-> "", folder |-> find_upwards(location, location, fs)]

\* disconnect_gutter: the renderer is removed and the id popped from the end of
\* buffer_signals is disconnected from the current buffer
disconnect_gutter(s) ==
    IF ~s.connected THEN s
    ELSE LET sid == s.buffer_signals[Len(s.buffer_signals)]
             s1  == [s EXCEPT !.gutter = FALSE,
                              !.buffer_signals = Slice(@, 1, Len(@) - 1)]
         IN  [disconnect_handler(s1, s.buffer, sid) EXCEPT !.connected = FALSE]

\* GLib.io_add_watch returns an id that no source has and that the plugin does
\* not hold: the least such id (0 when the model has none left)
fresh_source(s) ==
    LET used == {w.id : w \in s.sources} \cup {s.parse_signal}
        free == SourceIds \ used
    IN  IF free = {} THEN 0 ELSE CHOOSE i \in free : \A j \in free : i <= j

\* what subprocess.Popen does with "mypy": "" when the process is started, else
\* the exception it raises: FileNotFoundError when there is no mypy in $PATH,
\* PermissionError when the mypy there is not executable
PopenOutcomes == {"", "FileNotFoundError", "PermissionError"}

\* update: the poll in flight is removed; without a buffer the diagnostics are
\* cleared; the checker is spawned (popen: what Popen does) and the poll of its
\* stdout is registered.  Only FileNotFoundError is caught, with a warning;
\* any other exception of Popen leaves update
update(s, popen) ==
    LET s1 == cancel_check(s)
        s2 == IF s1.buffer = 0 THEN [s1 EXCEPT !.context_data = <<>>] ELSE s1
        id == fresh_source(s2)
    IN  IF s2.location = None \/ s2.project_folder = Unset
        THEN [s2 EXCEPT !.exc = "AttributeError"]
        ELSE IF popen = "FileNotFoundError" THEN [s2 EXCEPT !.warned = TRUE]
        ELSE IF popen # "" THEN [s2 EXCEPT !.exc = popen]
        ELSE IF id = 0 THEN [s2 EXCEPT !.stuck = TRUE]
        ELSE [s2 EXCEPT !.parse_signal = id,
                        !.latest = id,
                        !.started = TRUE,
                        !.sources = @ \cup {[id |-> id, phase |-> "running",
                                            out |-> <<>>]}]

\* connect_gutter
connect_gutter(s, popen) ==
    IF s.connected THEN update(s, popen)
    ELSE LET s1 == [s EXCEPT !.gutter = TRUE]
             s2 == connect(s1, s.buffer, "saved", "update")
             s3 == connect(s2, s.buffer, "changed", "update_gutter")
         IN  [s3 EXCEPT !.buffer_signals = @ \o
                 << [obj |-> s.buffer, sig |-> "saved", cb |-> "update"],
                    [obj |-> s.buffer, sig |-> "changed", cb |-> "update_gutter"] >>,
                        !.connected = TRUE]

\* update_location: e is what the handler reads from the host: the buffer's
\* file location and language, the files that exist, what Popen does
update_location(s, e) ==
    LET old_location == s.location
        s1 == [s EXCEPT !.location = e.doc_location]
        sc == should_check(s1, e.doc_language)
        renew == old_location = None \/ ~equal(s1.location, old_location)
        pf == find_project_folder(s1.location, e.fs)
        s2 == IF renew THEN [s1 EXCEPT !.project_folder = pf.folder] ELSE s1
        s3 == connect_gutter(s2, e.popen)
    IN  IF sc.exc # "" THEN [s1 EXCEPT !.exc = sc.exc]
        ELSE IF ~sc.val THEN disconnect_gutter(s1)
        ELSE IF renew /\ pf.exc = "FileNotFoundError" THEN disconnect_gutter(s1)
        ELSE IF s3.exc # "" THEN s3
        ELSE update(s3, e.popen)

\* ------------------------------------------------------------ do_draw

\* the loop of do_draw over context_data[i..]: the two mark positions are read
\* (None for a deleted mark), a message with both marks deleted is skipped, and
\* the loop body ends there: nothing is appended to messages
RECURSIVE draw_loop(_, _, _)
draw_loop(context_data, i, messages) ==
    IF i > Len(context_data) THEN messages
    ELSE LET msg == context_data[i]
         IN  IF msg.mark_start.deleted /\ msg.mark_end.deleted
             THEN draw_loop(context_data, i + 1, messages)
             ELSE draw_loop(context_data, i + 1, messages)

\* sorted(m["level"] for m in messages)[-1]: the highest level by Level.__lt__
highest(messages) ==
    CHOOSE l \in {messages[k].level : k \in 1..Len(messages)} :
        \A k \in 1..Len(messages) : ~lt(l, messages[k].level)

\* the list messages of do_draw when its loop has ended: the diagnostics it
\* has counted for the range from start to end
draw_messages(s, start, end) == draw_loop(s.context_data, 1, <<>>)

\* do_draw(cr, bg_area, cell_area, start, end, state): the colour the cell is
\* filled with, or "none" when the callback returns without painting
do_draw(s, start, end) ==
    LET messages == draw_messages(s, start, end)
    IN  IF messages = <<>> THEN "none" ELSE color(highest(messages))

\* do_query_tooltip(it, area, x, y, tooltip): its first statement is a bare
\* return, so it returns None (no tooltip is shown) and leaves the tooltip
\* without markup, whatever the line and the diagnostics
do_query_tooltip(s, line) == [shown |-> FALSE, markup |-> <<>>]

\* ------------------------------------------------------------ the host

\* the lines the checker's output is drawn from:
\*   1  /p/a.py:2:5:2:9: error: Bad [ty]
\*   2  /q/b.py:1:1:1:3: note: See
\*   3  random garbage
\*   4  /p/o.py:1:1:1:2: error: X
\*   5  /p/a.py:3:1:3:2: ERROR: Up
\*   6  /p/a.py:1:2:1:4: warning: W
\*   7  /p/./a.py:1:1:1:2: error: D
\*   8  /p/a.py:4:1:4:2: hint: H
\*   9  (an empty line)
\*  10  /p/a.py:1:1:1:<the digit 1, int_max_str_digits + 1 times>: error: x
\*  11  /p/a.py:<U+0663>:1:<U+0663>:1:<\x0c>warn<U+0131>ng:<\x0b>m<U+00A0>[<U+017F>]
\*        (ARABIC-INDIC DIGIT THREE for the lines, a form feed before the
\*        level, DOTLESS I in it, a vertical tab before the message, a
\*        NO-BREAK SPACE before the rule, which is LONG S)
\*  12  //p/a.py:1:1:1:2: error: D
LineText ==
    << 
       <<"/","p","/","a",".","p","y",":","2",":","5",":","2",":","9",":"," ","e","r","r","o","r",":"," ","B","a","d"," ","[","t","y","]">>,
       <<"/","q","/","b",".","p","y",":","1",":","1",":","1",":","3",":"," ","n","o","t","e",":"," ","S","e","e">>,
       <<"r","a","n","d","o","m"," ","g","a","r","b","a","g","e">>,
       <<"/","p","/","o",".","p","y",":","1",":","1",":","1",":","2",":"," ","e","r","r","o","r",":"," ","X">>,
       <<"/","p","/","a",".","p","y",":","3",":","1",":","3",":","2",":"," ","E","R","R","O","R",":"," ","U","p">>,
       <<"/","p","/","a",".","p","y",":","1",":","2",":","1",":","4",":"," ","w","a","r","n","i","n","g",":"," ","W">>,
       <<"/","p","/",".","/","a",".","p","y",":","1",":","1",":","1",":","2",":"," ","e","r","r","o","r",":"," ","D">>,
       <<"/","p","/","a",".","p","y",":","1","0",":","5",":","1","0",":","1","2",":"," ","h","i","n","t",":"," ","H">>,
       <<>>,
       <<"/","p","/","a",".","p","y",":","1",":","1",":","1",":">> \o [k \in 1..(int_max_str_digits + 1) |-> "1"] \o <<":"," ","e","r","r","o","r",":"," ","x">>,
       <<"/","p","/","a",".","p","y",":","U+0663",":","1",":","U+0663",":","1",":","\f","w","a","r","n","U+0131","n","g",":","","m","U+00A0","[","U+017F","]">>,
       <<"/","/","p","/","a",".","p","y",":","1",":","1",":","1",":","2",":"," ","e","r","r","o","r",":"," ","D">> >>

\* the text of an output: its lines, each ended by a newline
RECURSIVE Text(_)
Text(out) ==
    IF out = <<>> THEN <<>> ELSE LineText[out[1]] \o <<"\n">> \o Text(Tail(out))

\* the sequences of at most n elements of K
SeqsUpTo(K, n) == UNION {[1..k -> K] : k \in 0..n}

\* the longest output (in lines) the parser is run on in ParseSpec
MaxParseLines == 3

ParseLines == {1, 2, 3, 5, 6, 7, 8, 9}

\* outputs with the lines 10 to 12: a number int() refuses, alone, after a line
\* that is no diagnostic, and before and after a diagnostic; the characters of
\* Unicode; the path with two leading separators
SpecialOutputs ==
    {<<10>>, <<3, 10>>, <<1, 10>>, <<10, 1>>, <<2, 10>>,
     <<11>>, <<1, 11>>, <<12>>, <<12, 1>>, <<11, 12, 6>>}

\* the outputs of the checker in the view's state machine: nothing, a line for
\* FileA, a line for FileB, a line that is no diagnostic, and two of them
Outputs == {<<>>, <<1>>, <<2>>, <<3>>, <<3, 1>>}

ParseOutputs == SeqsUpTo(ParseLines, MaxParseLines) \cup SpecialOutputs

\* the files the view's documents are stored as
FileA == <<"/","p","/","a",".","p","y">>

FileB == <<"/","q","/","b",".","p","y">>

Locations == {FileA, FileB}

\* the ids of the languages of the documents (None: no language)
Languages == {None, <<"p","y","t","h","o","n","3">>, <<"c">>}

\* the project files that may exist when a project folder is looked up
FileSystems ==
    { {<<"/","p","/","s","e","t","u","p",".","c","f","g">>} }

\* the buffers the view is switched between
Buffers == {1, 2}

\* the first lines of the buffer the gutter draws cells for
DrawLines == {0, 1}

\* the length of the buffer's lines: a cell's range ends at this offset
Columns == 10

VARIABLES
    phase,           \* "new" (constructed), "active", "deactivated"
    context_data,    \* self.context_data
    parse_signal,    \* self.parse_signal
    connected,       \* self.connected
    location,        \* self.location
    buffer,          \* self.buffer (0: None)
    buffer_signals,  \* self.buffer_signals
    view_signals,    \* self.view_signals
    project_folder,  \* self.project_folder
    gutter,          \* gutter_renderer is in the view's gutter
    handlers,        \* the signal handlers connected to the view and the buffers
    sources,         \* the io watches of the main loop, with their processes
    latest,          \* the source id of the check started last
    doc_buffer,      \* the view's buffer
    doc_location,    \* the location of its file (None: none yet)
    doc_language,    \* the id of its language (None: no language)
    last             \* the last callback the host ran: its name, its argument,
                     \* the exceptions it ended with, whether it warned, and
                     \* what do_draw painted

vars ==
    <<phase, context_data, parse_signal, connected, location, buffer,
      buffer_signals, view_signals, project_folder, gutter, handlers, sources,
      latest, doc_buffer, doc_location, doc_language, last>>

\* the plugin's state as the record the handlers work on
Self ==
    [context_data |-> context_data, parse_signal |-> parse_signal,
     connected |-> connected, location |-> location, buffer |-> buffer,
     buffer_signals |-> buffer_signals, view_signals |-> view_signals,
     project_folder |-> project_folder, gutter |-> gutter,
     handlers |-> handlers, sources |-> sources, latest |-> latest,
     exc |-> "", errors |-> <<>>, warned |-> FALSE, cancelled |-> FALSE,
     started |-> FALSE, misses |-> FALSE, stuck |-> FALSE]

\* MyPyViewActivatable.__init__
Constructed ==
    [context_data |-> <<>>, parse_signal |-> 0, connected |-> FALSE,
     location |-> None, buffer |-> 0, buffer_signals |-> <<>>,
     view_signals |-> <<>>, project_folder |-> Unset, gutter |-> FALSE,
     handlers |-> <<>>, sources |-> {}, latest |-> 0,
     exc |-> "", errors |-> <<>>, warned |-> FALSE, cancelled |-> FALSE,
     started |-> FALSE, misses |-> FALSE, stuck |-> FALSE]

\* the host delivers events to the plugin while handlers of it are connected
Listening == phase = "active" \/ (phase = "deactivated" /\ handlers # <<>>)

\* the state t becomes the plugin's state
Becomes(t) ==
    /\ ~t.stuck
    /\ context_data' = t.context_data
    /\ parse_signal' = t.parse_signal
    /\ connected' = t.connected
    /\ location' = t.location
    /\ buffer' = t.buffer
    /\ buffer_signals' = t.buffer_signals
    /\ view_signals' = t.view_signals
    /\ project_folder' = t.project_folder
    /\ gutter' = t.gutter
    /\ handlers' = t.handlers
    /\ sources' = t.sources
    /\ latest' = t.latest

\* the record of a callback that has run: ev its name, arg its argument (the
\* output parsed by on_read, the line drawn by do_draw), the exceptions it ended
\* with, whether it warned, whether it cancelled a check in flight, started a
\* checker or disconnected what was not connected, the number of diagnostics
\* on_read found in place, the diagnostics do_draw counted for its range,
\* what it painted, and what do_query_tooltip returned and set
Ran(t, ev, arg, painted) ==
    last' = [ev |-> ev, arg |-> arg, errors |-> t.errors, warned |-> t.warned,
             cancelled |-> t.cancelled, started |-> t.started,
             misses |-> t.misses,
             before |-> IF ev = "on_read_done" THEN Len(context_data) ELSE 0,
             counted |-> IF ev = "do_draw"
                         THEN draw_messages(t, [line |-> arg[1], offset |-> 0],
                                            [line |-> arg[1], offset |-> Columns])
                         ELSE <<>>,
             tooltip |-> IF ev = "do_query_tooltip"
                         THEN do_query_tooltip(t, arg[1])
                         ELSE [shown |-> FALSE, markup |-> <<>>],
             painted |-> painted]

\* a callback run by the host: an exception it raises is printed by the
\* binding and goes no further
caught(cb, r) ==
    IF r.exc = "" THEN r
    ELSE [r EXCEPT !.errors = Append(@, <<cb, r.exc>>), !.exc = ""]

\* the callback of a connected handler
run_handler(s, h, e) ==
    caught(h.cb,
           CASE h.cb = "update_location"  -> update_location(s, e)
             [] h.cb = "update"           -> update(s, e.popen)
             [] h.cb = "update_gutter"    -> s
             [] h.cb = "on_notify_buffer" -> on_notify_buffer(s, e.doc_buffer))

\* whether handler h is (still) connected
is_connected(s, h) == \E k \in 1..Len(s.handlers) : s.handlers[k] = h

\* the emission of a signal: the handlers connected when it starts run in
\* connection order, one that was disconnected meanwhile does not run
RECURSIVE emit_loop(_, _, _)
emit_loop(s, hs, e) ==
    IF hs = <<>> THEN s
    ELSE IF is_connected(s, hs[1])
         THEN emit_loop(run_handler(s, hs[1], e), Tail(hs), e)
         ELSE emit_loop(s, Tail(hs), e)

emit(s, obj, sig, e) ==
    emit_loop(s, SelectSeq(s.handlers, LAMBDA h : h.obj = obj /\ h.sig = sig), e)

\* what the handlers of an event read from the host
Env(b, loc, lang, fs, popen) ==
    [doc_buffer |-> b, doc_location |-> loc, doc_language |-> lang,
     fs |-> fs, popen |-> popen]

Init ==
    /\ phase = "new"
    /\ context_data = Constructed.context_data
    /\ parse_signal = Constructed.parse_signal
    /\ connected = Constructed.connected
    /\ location = Constructed.location
    /\ buffer = Constructed.buffer
    /\ buffer_signals = Constructed.buffer_signals
    /\ view_signals = Constructed.view_signals
    /\ project_folder = Constructed.project_folder
    /\ gutter = Constructed.gutter
    /\ handlers = Constructed.handlers
    /\ sources = Constructed.sources
    /\ latest = Constructed.latest
    /\ doc_buffer = 1
    /\ doc_location \in {None} \cup Locations
    /\ doc_language \in Languages
    /\ last = [ev |-> "__init__", arg |-> <<>>, errors |-> <<>>,
               warned |-> FALSE, cancelled |-> FALSE, started |-> FALSE,
               misses |-> FALSE, before |-> 0, counted |-> <<>>,
               tooltip |-> [shown |-> FALSE, markup |-> <<>>],
               painted |-> "none"]

\* the plugin manager activates the extension for the view
Activate ==
    /\ phase = "new"
    /\ phase' = "active"
    /\ Becomes(caught("do_activate", do_activate(Self, doc_buffer)))
    /\ Ran(caught("do_activate", do_activate(Self, doc_buffer)), "do_activate",
           <<>>, "none")
    /\ UNCHANGED <<doc_buffer, doc_location, doc_language>>

\* the plugin manager deactivates it
Deactivate ==
    /\ phase = "active"
    /\ phase' = "deactivated"
    /\ Becomes(caught("do_deactivate", do_deactivate(Self)))
    /\ Ran(caught("do_deactivate", do_deactivate(Self)), "do_deactivate",
           <<>>, "none")
    /\ UNCHANGED <<doc_buffer, doc_location, doc_language>>

\* the view gets another buffer (a document with its own location and
\* language): notify::buffer
NotifyBuffer ==
    \E b \in Buffers \ {doc_buffer}, loc \in {None} \cup Locations,
       lang \in Languages :
        LET t == emit(Self, 0, "notify::buffer", Env(b, loc, lang, {}, ""))
        IN  /\ Listening
            /\ doc_buffer' = b
            /\ doc_location' = loc
            /\ doc_language' = lang
            /\ Becomes(t)
            /\ Ran(t, "signal", <<>>, "none")
            /\ UNCHANGED phase

\* a file is loaded into the view's document (an untitled one, or again into
\* the one that holds it): loaded
Loaded ==
    \E loc \in Locations, fs \in FileSystems, popen \in PopenOutcomes :
        LET t == emit(Self, doc_buffer, "loaded",
                      Env(doc_buffer, loc, doc_language, fs, popen))
        IN  /\ Listening
            /\ doc_location \in {None, loc}
            /\ doc_location' = loc
            /\ Becomes(t)
            /\ Ran(t, "signal", <<>>, "none")
            /\ UNCHANGED <<phase, doc_buffer, doc_language>>

\* the document is saved, under its name or under another one: saved
Saved ==
    \E loc \in Locations, fs \in FileSystems, popen \in PopenOutcomes :
        LET t == emit(Self, doc_buffer, "saved",
                      Env(doc_buffer, loc, doc_language, fs, popen))
        IN  /\ Listening
            /\ doc_location' = loc
            /\ Becomes(t)
            /\ Ran(t, "signal", <<>>, "none")
            /\ UNCHANGED <<phase, doc_buffer, doc_language>>

\* the document's language changes: notify::language
NotifyLanguage ==
    \E lang \in Languages \ {doc_language}, fs \in FileSystems,
       popen \in PopenOutcomes :
        LET t == emit(Self, doc_buffer, "notify::language",
                      Env(doc_buffer, doc_location, lang, fs, popen))
        IN  /\ Listening
            /\ doc_language' = lang
            /\ Becomes(t)
            /\ Ran(t, "signal", <<>>, "none")
            /\ UNCHANGED <<phase, doc_buffer, doc_location>>

\* the checker closes its stdout before it has exited
ProcClose ==
    \E w \in sources :
        /\ w.phase = "running"
        /\ sources' = (sources \ {w}) \cup {[w EXCEPT !.phase = "closed"]}
        /\ UNCHANGED <<phase, context_data, parse_signal, connected, location,
                       buffer, buffer_signals, view_signals, project_folder,
                       gutter, handlers, latest, doc_buffer, doc_location,
                       doc_language, last>>

\* the checker exits, having written out
ProcExit ==
    \E w \in sources, out \in Outputs :
        /\ w.phase \in {"running", "closed"}
        /\ sources' = (sources \ {w})
                        \cup {[w EXCEPT !.phase = "exited", !.out = out]}
        /\ UNCHANGED <<phase, context_data, parse_signal, connected, location,
                       buffer, buffer_signals, view_signals, project_folder,
                       gutter, handlers, latest, doc_buffer, doc_location,
                       doc_language, last>>

\* on_read while the pipe is open: the text is added to data, the poll stays
OnReadMore ==
    \E w \in sources :
        /\ w.phase = "running"
        /\ Becomes(Self)
        /\ Ran(Self, "on_read", <<>>, "none")
        /\ UNCHANGED <<phase, doc_buffer, doc_location, doc_language>>

\* on_read with the pipe closed and proc.wait timing out: the poll stays
OnReadTimeout ==
    \E w \in sources :
        /\ w.phase = "closed"
        /\ Becomes(Self)
        /\ Ran(Self, "on_read_timeout", <<>>, "none")
        /\ UNCHANGED <<phase, doc_buffer, doc_location, doc_language>>

\* on_read of source w with the pipe closed and the process exited: the data
\* read (the whole output) is parsed, parse_signal is cleared and the callback
\* returns False, which removes the source; a callback that raises is removed
\* as well
on_read(s, w) ==
    LET s1 == parse_mypy(s, Text(w.out))
        s2 == [s1 EXCEPT !.sources = @ \ {w}]
    IN  IF s1.exc # "" THEN s2 ELSE [s2 EXCEPT !.parse_signal = 0]

OnReadDone ==
    \E w \in sources :
        /\ w.phase = "exited"
        /\ LET t == caught("on_read", on_read(Self, w))
           IN  Becomes(t) /\ Ran(t, "on_read_done", w.out, "none")
        /\ UNCHANGED <<phase, doc_buffer, doc_location, doc_language>>

\* the gutter draws the cell of a line
Draw ==
    \E l \in DrawLines :
        /\ gutter
        /\ Becomes(Self)
        /\ Ran(Self, "do_draw", <<l>>,
               do_draw(Self, [line |-> l, offset |-> 0],
                       [line |-> l, offset |-> Columns]))
        /\ UNCHANGED <<phase, doc_buffer, doc_location, doc_language>>

\* the pointer rests on the gutter cell of a line: query-tooltip
QueryTooltip ==
    \E l \in DrawLines :
        /\ gutter
        /\ Becomes(Self)
        /\ Ran(Self, "do_query_tooltip", <<l>>, "none")
        /\ UNCHANGED <<phase, doc_buffer, doc_location, doc_language>>

Next ==
    \/ Activate
    \/ Deactivate
    \/ NotifyBuffer
    \/ Loaded
    \/ Saved
    \/ NotifyLanguage
    \/ ProcClose
    \/ ProcExit
    \/ OnReadMore
    \/ OnReadTimeout
    \/ OnReadDone
    \/ Draw
    \/ QueryTooltip

Spec == Init /\ [][Next]_vars

\* ------------------------------------------------ the parser on its inputs

\* the plugin activated on buffer 1, after update_location has run for a
\* Python file at loc and has started a check
Checking(loc) ==
    update_location(do_activate(Constructed, 1),
                    Env(1, loc, <<"p","y","t","h","o","n","3">>, {}, ""))

\* a check is in flight for a Python file and the checker has exited, having
\* written one of ParseOutputs
ParseInit ==
    \E loc \in Locations : \E c \in {Checking(loc)} :
        /\ phase = "active"
        /\ context_data = c.context_data
        /\ parse_signal = c.parse_signal
        /\ connected = c.connected
        /\ location = c.location
        /\ buffer = c.buffer
        /\ buffer_signals = c.buffer_signals
        /\ view_signals = c.view_signals
        /\ project_folder = c.project_folder
        /\ gutter = c.gutter
        /\ handlers = c.handlers
        /\ latest = c.latest
        /\ doc_buffer = 1
        /\ doc_location = loc
        /\ doc_language = <<"p","y","t","h","o","n","3">>
        /\ last = [ev |-> "signal", arg |-> <<>>, errors |-> <<>>,
                   warned |-> FALSE, cancelled |-> FALSE, started |-> FALSE,
                   misses |-> FALSE, before |-> 0, counted |-> <<>>,
                   tooltip |-> [shown |-> FALSE, markup |-> <<>>],
                   painted |-> "none"]
        /\ \E out \in ParseOutputs :
               sources = {[w EXCEPT !.phase = "exited", !.out = out] :
                             w \in c.sources}

ParseNext ==
    \/ OnReadDone
    \/ Draw
    \/ QueryTooltip

ParseSpec == ParseInit /\ [][ParseNext]_vars

\* ------------------------------------- find_project_folder on its inputs

\* locations of files at three depths, and the root itself
FolderLocations ==
    { <<"/","a",".","p","y">>,
      <<"/","p","/","a",".","p","y">>,
      <<"/","p","/","q","/","a",".","p","y">>,
      <<"/">> }

\* the directories above them
FolderDirs == { <<"/">>, <<"/","p">>, <<"/","p","/","q">> }

\* the marker files these directories can hold, and a file that is no marker
FolderFiles ==
    {get_child(d, PROJECT_FILES[k]) : d \in FolderDirs, k \in 1..Len(PROJECT_FILES)}
        \cup { <<"/","p","/","q","/","s","e","t","u","p",".","p","y">> }

\* the plugin is active on buffer 1 and update_location has assigned the
\* location of its file
FolderInit ==
    \E loc \in FolderLocations :
        /\ phase = "active"
        /\ context_data = do_activate(Constructed, 1).context_data
        /\ parse_signal = do_activate(Constructed, 1).parse_signal
        /\ connected = do_activate(Constructed, 1).connected
        /\ location = loc
        /\ buffer = do_activate(Constructed, 1).buffer
        /\ buffer_signals = do_activate(Constructed, 1).buffer_signals
        /\ view_signals = do_activate(Constructed, 1).view_signals
        /\ project_folder = do_activate(Constructed, 1).project_folder
        /\ gutter = do_activate(Constructed, 1).gutter
        /\ handlers = do_activate(Constructed, 1).handlers
        /\ sources = do_activate(Constructed, 1).sources
        /\ latest = do_activate(Constructed, 1).latest
        /\ doc_buffer = 1
        /\ doc_location = loc
        /\ doc_language = <<"p","y","t","h","o","n","3">>
        /\ last = [ev |-> "signal", arg |-> <<>>, errors |-> <<>>,
                   warned |-> FALSE, cancelled |-> FALSE, started |-> FALSE,
                   misses |-> FALSE, before |-> 0, counted |-> <<>>,
                   tooltip |-> [shown |-> FALSE, markup |-> <<>>],
                   painted |-> "none"]

\* self.project_folder = self.find_project_folder() with the files fs existing
FindProjectFolder ==
    \E fs \in SUBSET FolderFiles :
        /\ last.ev = "signal"
        /\ project_folder' =
               IF find_project_folder(location, fs).exc = ""
               THEN find_project_folder(location, fs).folder
               ELSE project_folder
        /\ last' = [last EXCEPT
                       !.ev = "find_project_folder",
                       !.arg = <<fs>>,
                       !.errors =
                           IF find_project_folder(location, fs).exc = "" THEN <<>>
                           ELSE << <<"find_project_folder",
                                     find_project_folder(location, fs).exc>> >>]
        /\ UNCHANGED <<phase, context_data, parse_signal, connected, location,
                       buffer, buffer_signals, view_signals, gutter, handlers,
                       sources, latest, doc_buffer, doc_location, doc_language>>

FolderNext == FindProjectFolder

FolderSpec == FolderInit /\ [][FolderNext]_vars

\* ------------------------------------------------------------ properties

\* What each line of LineText says, read off its text: whether it is a
\* diagnostic line, the file its path names, the length of the path and the
\* four numbers that follow it (-1 for the number of line 10, which is beyond
\* the numbers of the model).
Said ==
    << [ok |-> TRUE,  file |-> FileA, pathlen |-> 7, span |-> <<2, 5, 2, 9>>],
       [ok |-> TRUE,  file |-> FileB, pathlen |-> 7, span |-> <<1, 1, 1, 3>>],
       [ok |-> FALSE],
       [ok |-> TRUE,  file |-> <<"/","p","/","o",".","p","y">>, pathlen |-> 7,
        span |-> <<1, 1, 1, 2>>],
       [ok |-> TRUE,  file |-> FileA, pathlen |-> 7, span |-> <<3, 1, 3, 2>>],
       [ok |-> TRUE,  file |-> FileA, pathlen |-> 7, span |-> <<1, 2, 1, 4>>],
       [ok |-> TRUE,  file |-> FileA, pathlen |-> 9, span |-> <<1, 1, 1, 2>>],
       [ok |-> TRUE,  file |-> FileA, pathlen |-> 7, span |-> <<10, 5, 10, 12>>],
       [ok |-> FALSE],
       [ok |-> TRUE,  file |-> FileA, pathlen |-> 7, span |-> <<1, 1, 1, -1>>],
       [ok |-> TRUE,  file |-> FileA, pathlen |-> 7, span |-> <<3, 1, 3, 1>>],
       [ok |-> TRUE,  file |-> <<"/","/","p","/","a",".","p","y">>, pathlen |-> 8,
        span |-> <<1, 1, 1, 2>>] >>

\* msg is the record of line i of LineText
IsRecordOf(msg, i) ==
    /\ Said[i].ok
    /\ msg.path = SubSeq(LineText[i], 1, Said[i].pathlen)
    /\ <<msg.line, msg.column, msg.end_line, msg.end_column>> = Said[i].span

\* the lines of an output that are diagnostics for the file loc, in order
KeptLines(out, loc) ==
    SelectSeq(out, LAMBDA i : Said[i].ok /\ Said[i].file = loc)

\* the list holds exactly the records of the output's lines for loc, in order
Covers(list, out, loc) ==
    /\ Len(list) = Len(KeptLines(out, loc))
    /\ \A k \in 1..Len(list) : IsRecordOf(list[k], KeptLines(out, loc)[k])

\* C1: at most one check is polled at any time, the one update started last
\* (update removes the poll of the check in flight before it starts another),
\* and a poll callback that completes belongs to the check started last, so
\* that no superseded run commits its result.
OnePollAtATime ==
    /\ [](/\ Cardinality(sources) <= 1
          /\ \A w \in sources : w.id = parse_signal /\ w.id = latest)
    /\ [][\A w \in sources :
            (w \notin sources' /\ last'.ev = "on_read_done") => w.id = latest]_vars

\* an event has removed the poll of a check in flight and has started another
SupersededCheck ==
    /\ last.cancelled
    /\ \E w \in sources : w.id = parse_signal /\ w.phase = "running"

\* C2 (as claimed): every diagnostic in context_data is for the view's
\* current location.
SetMatchesLocation ==
    \A k \in 1..Len(context_data) : get_file(context_data[k]) = location

\* C3 (as claimed): after a parse, no record of the Diagnostic Set has a path
\* that differs from the location.
NoOtherPath ==
    last.ev = "on_read_done" =>
        \A k \in 1..Len(context_data) : context_data[k].path = location

\* C3 (amended): after a parse, every record of the Diagnostic Set comes from
\* a line of the output whose path names the file at the location; an output
\* with lines for other files only leaves the set empty.
NoOtherFile ==
    last.ev = "on_read_done" =>
        /\ \A k \in 1..Len(context_data) :
              \E j \in 1..Len(last.arg) :
                  /\ IsRecordOf(context_data[k], last.arg[j])
                  /\ Said[last.arg[j]].file = location
        /\ (\A j \in 1..Len(last.arg) :
               Said[last.arg[j]].ok => Said[last.arg[j]].file # location)
           => context_data = <<>>

\* a parse for /p/a.py of an output with a line for /q/b.py, a line whose path
\* /p/./a.py names /p/a.py, and a line for /p/a.py: the last two are kept
OtherFileDropped ==
    /\ last.ev = "on_read_done"
    /\ last.arg = <<2, 7, 1>>
    /\ location = FileA
    /\ Len(context_data) = 2

\* the severities in the order of the claim, Note < Warning < Error < Unknown
Rank == [l \in {"NOTE", "WARN", "ERROR", "UNKNOWN"} |->
            CASE l = "NOTE" -> 1 [] l = "WARN" -> 2 [] l = "ERROR" -> 3
              [] OTHER -> 4]

Before(p, q) == p[1] < q[1] \/ (p[1] = q[1] /\ p[2] <= q[2])

\* the diagnostics whose range from mark_start to mark_end meets the cell of
\* line l, from its first offset to its last
Overlapping(l) ==
    {k \in 1..Len(context_data) :
        /\ Before(<<context_data[k].mark_start.line,
                    context_data[k].mark_start.offset>>, <<l, Columns>>)
        /\ Before(<<l, 0>>, <<context_data[k].mark_end.line,
                              context_data[k].mark_end.offset>>)}

\* C4 (as claimed): do_draw fills the cell with the colour of the highest
\* severity among the diagnostics that overlap it, and paints nothing when
\* none overlaps.
DrawsWorstSeverity ==
    last.ev = "do_draw" =>
        IF Overlapping(last.arg[1]) = {}
        THEN last.painted = "none"
        ELSE \E k \in Overlapping(last.arg[1]) :
                /\ \A j \in Overlapping(last.arg[1]) :
                      Rank[context_data[j].level] <= Rank[context_data[k].level]
                /\ last.painted = color(context_data[k].level)

\* C5 (as claimed): after an event whose check did not find the checker (a
\* warning), no poll is registered and no diagnostics remain in the set.
NotFoundShowsNothing ==
    last.warned =>
        /\ sources = {}
        /\ parse_signal = 0
        /\ context_data = <<>>

\* C6 (as claimed): no callback of the plugin ends with an exception.
NoUnhandledError == last.errors = <<>>

\* C7 (as claimed): a parse does not end with an exception, and the Diagnostic
\* Set then holds exactly the records of the output's diagnostic lines for the
\* location, in the order of the output; the other lines are skipped.
UnmatchedLinesSkipped ==
    last.ev = "on_read_done" =>
        /\ last.errors = <<>>
        /\ Covers(context_data, last.arg, location)

\* C8 (as claimed): the poll callback that parses the output never ends with an
\* exception, whatever the output, and commits (the check is no longer in
\* flight); an empty output commits the empty set.
ParseIsTotal ==
    last.ev = "on_read_done" =>
        /\ last.errors = <<>>
        /\ parse_signal = 0
        /\ (Text(last.arg) = <<>> => context_data = <<>>)

\* C9: context_data only changes when a parse completes, and its new value is
\* the complete result of that parse (nothing of the previous set remains and
\* no record of the output is missing); every other step, draws included,
\* finds the set as the last parse left it.
ReplacedAsAWhole ==
    [][context_data' # context_data =>
          /\ last'.ev = "on_read_done"
          /\ last'.errors = <<>>
          /\ Covers(context_data', last'.arg, location')]_vars

\* a parse that found diagnostics in place and left the empty set
SetReplacedByEmpty ==
    /\ last.ev = "on_read_done"
    /\ last.before > 0
    /\ last.arg = <<3>>
    /\ context_data = <<>>

\* the letters in order, small and capital
SmallLetters ==
    <<"a","b","c","d","e","f","g","h","i","j","k","l","m",
      "n","o","p","q","r","s","t","u","v","w","x","y","z">>

CapitalLetters ==
    <<"A","B","C","D","E","F","G","H","I","J","K","L","M",
      "N","O","P","Q","R","S","T","U","V","W","X","Y","Z">>

\* a word with its capital letters made small
Folded(word) ==
    [k \in 1..Len(word) |->
        IF \E n \in 1..Len(CapitalLetters) : CapitalLetters[n] = word[k]
        THEN SmallLetters[CHOOSE n \in 1..Len(CapitalLetters) :
                              CapitalLetters[n] = word[k]]
        ELSE word[k]]

\* the Severity the claim gives a severity word
SeverityOf(word) ==
    CASE Folded(word) = <<"n","o","t","e">> -> "NOTE"
      [] Folded(word) = <<"w","a","r","n","i","n","g">> -> "WARN"
      [] Folded(word) = <<"e","r","r","o","r">> -> "ERROR"
      [] OTHER -> "UNKNOWN"

\* C10 (as claimed): the level of every record is the Severity of its
\* severity word, whatever the case of its letters.
SeverityInAnyCase ==
    \A k \in 1..Len(context_data) :
        context_data[k].level = SeverityOf(context_data[k].level_text)

\* position p is strictly after position q
After(p, q) == p[1] > q[1] \/ (p[1] = q[1] /\ p[2] > q[2])

\* diagnostic msg overlaps the range from qs to qe by the claim's test
Meets(msg, qs, qe) ==
    /\ ~After(qs, <<msg.mark_end.line, msg.mark_end.offset>>)
    /\ ~After(<<msg.mark_start.line, msg.mark_start.offset>>, qe)

\* C11 (as claimed): the diagnostics do_draw counts for the cell of a line are
\* those of the set that overlap the cell's range, edge touches included, and
\* none when the range is outside all of them.
OverlapCounted ==
    last.ev = "do_draw" =>
        last.counted =
            SelectSeq(context_data,
                      LAMBDA msg : Meets(msg, <<last.arg[1], 0>>,
                                         <<last.arg[1], Columns>>))

\* C12 (as claimed): asked about a line that diagnostics of the set overlap,
\* do_query_tooltip reports a tooltip and sets one summary per overlapping
\* diagnostic, in the order of the set; with none it reports no tooltip.
TooltipForOverlapping ==
    last.ev = "do_query_tooltip" =>
        LET over == SelectSeq(context_data,
                              LAMBDA msg : Meets(msg, <<last.arg[1], 0>>,
                                                 <<last.arg[1], Columns>>))
        IN  /\ last.tooltip.shown = (over # <<>>)
            /\ last.tooltip.markup =
                   [k \in 1..Len(over) |-> get_pango_markup(over[k])]

\* C13 (as claimed): a poll callback that finds the pipe closed and times out
\* waiting for the exit leaves the poll registered and commits nothing
\* (parse_signal and context_data stay as they are); a poll callback on a
\* process that has exited commits the records of its output, clears
\* parse_signal and removes the poll, so that the result is committed once.
PollStaysUntilExit ==
    [][/\ (last' # last /\ last'.ev = "on_read_timeout") =>
              /\ \E w \in sources : w.phase = "closed" /\ w.id = parse_signal
              /\ sources' = sources
              /\ parse_signal' = parse_signal
              /\ context_data' = context_data
       /\ (last' # last /\ last'.ev = "on_read_done") =>
              \E w \in sources :
                  /\ w.phase = "exited"
                  /\ sources' = {}
                  /\ parse_signal' = 0
                  /\ Covers(context_data', w.out, location)]_vars

\* C14: once do_deactivate has run, no handler of the plugin is connected to
\* the view or to a buffer and no poll source of it is left in the main loop;
\* and no event ever disconnects an id that is not connected (nothing is
\* released twice).
AllReleased ==
    /\ phase = "deactivated" =>
          /\ handlers = <<>>
          /\ sources = {}
          /\ parse_signal = 0
    /\ ~last.misses

\* do_deactivate has run on a view whose gutter was connected and whose check
\* was in flight
DeactivatedWhileChecking ==
    /\ phase = "deactivated"
    /\ last.ev = "do_deactivate"
    /\ last.cancelled
    /\ connected
    /\ handlers = <<>>

\* directory d is above the file or directory f
Above(d, f) ==
    \/ d = <<"/">> /\ Len(f) > 1
    \/ /\ Len(f) > Len(d) + 1
       /\ SubSeq(f, 1, Len(d)) = d
       /\ f[Len(d) + 1] = "/"

\* directory d holds one of the marker files, fs being the files that exist
Marked(d, fs) ==
    \E name \in { <<".","m","y","p","y",".","i","n","i">>,
                  <<"p","y","p","r","o","j","e","c","t",".","t","o","m","l">>,
                  <<"s","e","t","u","p",".","c","f","g">> } :
        (IF d = <<"/">> THEN d \o name ELSE d \o <<"/">> \o name) \in fs

\* the deepest of a set of directories that are above one file
Deepest(ds) == CHOOSE d \in ds : \A e \in ds : Len(e) <= Len(d)

\* C15: find_project_folder returns the nearest directory above the file that
\* holds a marker file, the root included, and the file's own directory when
\* none does; it raises (FileNotFoundError) only for a location without a
\* parent.
NearestMarkedFolder ==
    last.ev = "find_project_folder" =>
        LET above  == {d \in FolderDirs : Above(d, location)}
            marked == {d \in above : Marked(d, last.arg[1])}
        IN  IF above = {}
            THEN last.errors = << <<"find_project_folder", "FileNotFoundError">> >>
            ELSE /\ last.errors = <<>>
                 /\ project_folder =
                        IF marked = {} THEN Deepest(above) ELSE Deepest(marked)

\* for /p/q/a.py, with a marker in the root only, the root is returned
MarkerInRootFound ==
    /\ last.ev = "find_project_folder"
    /\ location = <<"/","p","/","q","/","a",".","p","y">>
    /\ last.arg[1] = { <<"/","s","e","t","u","p",".","c","f","g">>,
                       <<"/","p","/","q","/","s","e","t","u","p",".","p","y">> }
    /\ project_folder = <<"/">>

\* C16: after a parse that has built its records, the start anchor of every
\* record is at the line and the column its output line gives first, each less
\* one, and the end anchor at the line and the column it gives last, each less
\* one.
AnchorsLessOne ==
    (last.ev = "on_read_done" /\ last.errors = <<>>) =>
        /\ Len(context_data) = Len(KeptLines(last.arg, location))
        /\ \A k \in 1..Len(context_data) :
              LET span == Said[KeptLines(last.arg, location)[k]].span
              IN  /\ context_data[k].mark_start.line = span[1] - 1
                  /\ context_data[k].mark_start.offset = span[2] - 1
                  /\ context_data[k].mark_end.line = span[3] - 1
                  /\ context_data[k].mark_end.offset = span[4] - 1

\* the line with 10:5:10:12 has been parsed: its anchors are on the tenth
\* line (index 9) at offsets 4 and 11
TenFiveTenTwelve ==
    /\ last.ev = "on_read_done"
    /\ last.arg = <<8>>
    /\ Len(context_data) = 1
    /\ context_data[1].mark_start.line = 9
    /\ context_data[1].mark_start.offset = 4
    /\ context_data[1].mark_end.line = 9
    /\ context_data[1].mark_end.offset = 11

\* the view is checkable: its location is set and the id of its buffer's
\* language begins with "python"
Checkable ==
    /\ location # None
    /\ Len(doc_language) >= 6
    /\ SubSeq(doc_language, 1, 6) = <<"p","y","t","h","o","n">>

\* C17 (as claimed): an event starts a checker process only while the view is
\* checkable (stated for the events whose handlers all end without an
\* exception, so that a buffer without a language is not what decides it).
ChecksOnlyWhenCheckable == (last.started /\ last.errors = <<>>) => Checkable

\* C18 (as claimed): the buffer has at most one 'saved' handler to update and
\* at most one 'changed' handler to update_gutter, and none of either while
\* connected is False.
GutterHandlersUndone ==
    \A cb \in {"update", "update_gutter"} :
        LET n == Cardinality({k \in 1..Len(handlers) : handlers[k].cb = cb})
        IN  /\ n <= 1
            /\ ~connected => n = 0

\* C19 (as claimed): while the view is active, the three base handlers are
\* connected to its current buffer.
BaseHandlersConnected ==
    phase = "active" =>
        \A sig \in {"saved", "loaded", "notify::language"} :
            \E k \in 1..Len(handlers) :
                handlers[k] = [obj |-> buffer, sig |-> sig,
                               cb |-> "update_location"]

\* the directory of the file at path f: f up to its last separator (no marker
\* file of FileSystems lies in a directory above that of a file of Locations
\* other than its own, so this is the project folder of the file)
DirOf(f) ==
    LET last_sep == CHOOSE i \in 1..Len(f) :
                        /\ f[i] = "/"
                        /\ \A j \in (i + 1)..Len(f) : f[j] # "/"
    IN  IF last_sep = 1 THEN <<"/">> ELSE SubSeq(f, 1, last_sep - 1)

\* C20 (as claimed): an event that starts a checker process leaves
\* project_folder at the project folder of the current location, and
\* project_folder is defined whenever the view is checkable with its gutter
\* connected, which is when update is run.
FolderDefinedAndCurrent ==
    /\ last.started => project_folder = DirOf(location)
    /\ (last.ev = "signal" /\ Checkable /\ connected) => project_folder # Unset

====
